---------------------------- MODULE Spec2Model ----------------------------
(***************************************************************************)
(* State-machine model of the two scraping pipelines of the repository:    *)
(*   scrape_books        (src/scrape_books.py)                             *)
(*   scrape_hacker_news  (src/scrape_hn.py)                                *)
(* Every network call, DOM lookup, parse and file write is a step whose    *)
(* outcome (success, or one of the exception classes the code tells apart) *)
(* is chosen by the environment.                                           *)
(***************************************************************************)
EXTENDS Integers, Sequences, FiniteSets, TLC

(***************************************************************************)
(* Bounds of the model.                                                    *)
(***************************************************************************)
MaxPage == 2          \* catalog pages 1..MaxPage answer 200; later pages never do
MaxItems == 2         \* at most this many product_pod articles on a page
MaxBooks == 2         \* num_books ranges over 0..MaxBooks
MaxRetriesArg == 2    \* max_retries ranges over 0..MaxRetriesArg
MaxRows == 2          \* find_elements returns at most this many tr.athing rows
MaxScore == 1         \* a parsed score ranges over 0..MaxScore
FlushSize == 12       \* tokens the buffer of the books.json file object holds

(***************************************************************************)
(* Program constants.                                                      *)
(***************************************************************************)
MAX_RETRIES == 3          \* scrape_hn.py line 21
PRICE_LIMIT_DEFAULT == 20 \* scrape_books.py line 13, price_limit=20

VARIABLES
    \* ---- scrape_books ----
    bpc,              \* control position of scrape_books
    num_books, price_limit, max_retries,   \* arguments
    books,            \* prices of the articles of the page being processed (line 35);
                      \* <<>> once the page is left
    fetched_page,     \* the page number "books" was parsed from, 0 before the first
    qualifying_seen,  \* number of distinct articles priced below the ceiling served so far
    books_scraped, page_num, all_books_data,
    attempt,          \* index of the next page attempt (for attempt in range(max_retries))
    book_idx,         \* position in "for book in books", 0 outside that loop
    cat_attempt,      \* index of the next category attempt, 0 outside that loop
    books_json,       \* content of books.json
    written,          \* number of tokens of the dump that reached the file
    aborted,          \* the pagination loop was left through the for-else at line 112
    saw_empty,        \* a 200 page with no product_pod article has been seen
    req,              \* the HTTP request issued by the most recent step
    last_page,        \* page number of the most recent catalog page request, 0 before the first
    page_gets,        \* number of GETs issued so far for the URL of page last_page
    bslept,           \* the most recent step ended in time.sleep(retry_delay)
    bevent,           \* what the most recent step of scrape_books did
    \* ---- scrape_hacker_news ----
    hpc,              \* control position of scrape_hacker_news
    driver,           \* TRUE when the local "driver" holds a WebDriver
    hn_attempt,       \* loop variable of the current retry loop
    rows,             \* number of rows returned by find_elements
    row_i,            \* position in "for i, row in enumerate(rows)"
    news_items,
    row_log,          \* per processed row, the outcome of its lookups
    quit_calls,       \* number of driver.quit() invocations
    hn_return,        \* the value returned (meaningful when hpc = "returned")
    hn_json,          \* content of hacker_news.json
    hexit,            \* which return statement (or exception) ended the run
    hop,              \* the WebDriver query executed by the most recent step
    find_calls,       \* number of driver.find_elements calls
    hslept,           \* the most recent step ended in time.sleep(RETRY_DELAY)
    hevent,           \* what the most recent step of scrape_hacker_news did
    \* ---- GET /books ----
    rpc,              \* position of the request: "idle", "reading", "responded"
    rbuf,             \* what f.read() has collected so far
    books_data,       \* the value load_books_from_json returned
    response          \* the list returned by get_books

bvars == <<bpc, num_books, price_limit, max_retries, books, fetched_page,
           qualifying_seen, books_scraped,
           page_num, all_books_data, attempt, book_idx, cat_attempt,
           books_json, written, aborted, saw_empty, req, last_page, page_gets,
           bslept, bevent>>
hvars == <<hpc, driver, hn_attempt, rows, row_i, news_items, row_log,
           quit_calls, hn_return, hn_json, hexit, hop, find_calls, hslept,
           hevent>>
svars == <<rpc, rbuf, books_data, response>>
vars == <<bvars, hvars, svars>>

(***************************************************************************)
(* Requests.                                                               *)
(***************************************************************************)
NoReq == [kind |-> "none", page |-> 0, idx |-> 0]
PageReq(p) == [kind |-> "page", page |-> p, idx |-> 0]
BookReq(p, i) == [kind |-> "book", page |-> p, idx |-> i]

\* prices on either side of the ceiling: just below it, and at it
Prices == {PRICE_LIMIT_DEFAULT - 1, PRICE_LIMIT_DEFAULT}
PageContents == UNION {[1..n -> Prices] : n \in 0..MaxItems}

\* prior content of the output files
OldFile == <<"old">>

\* the dictionary appended at lines 82-89
BookRecord(p, i, price) ==
    [title |-> <<p, i>>, price |-> price, category |-> "cat", image_url |-> <<"img", p, i>>]

\* the values the fields of a book can take
BookValues ==
    [title |-> (1..MaxPage) \X (1..MaxItems),
     price |-> Prices,
     category |-> {"cat", "None"},
     image_url |-> {"img"} \X (1..MaxPage) \X (1..MaxItems)]

(***************************************************************************)
(* json.dump / json.load.  A file is a sequence of JSON tokens; a scalar   *)
(* is written as its literal (ToString: numbers bare, strings quoted).     *)
(***************************************************************************)
\* dictionary keys of a book, paired with the model's field names (lines 84-87)
BookKeys == << <<"title", "Título">>, <<"price", "Precio">>,
               <<"category", "Categoría">>, <<"image_url", "URL de la imagen">> >>

\* dictionary keys of a headline (line 169)
HeadlineKeys == << <<"title", "title">>, <<"score", "score">>, <<"url", "url">> >>

\* tokens of one dictionary: { key: value, ... }
DumpObject(r, keys) ==
    LET Pair[k \in 0..Len(keys)] ==
            IF k = 0 THEN <<>>
            ELSE Pair[k - 1] \o <<ToString(keys[k][2]), ToString(r[keys[k][1]])>>
    IN <<"{">> \o Pair[Len(keys)] \o <<"}">>

\* json.dump(list, f): [ object, object, ... ]
JsonDump(list, keys) ==
    LET Items[k \in 0..Len(list)] ==
            IF k = 0 THEN <<>>
            ELSE Items[k - 1] \o (IF k > 1 THEN <<",">> ELSE <<>>)
                             \o DumpObject(list[k], keys)
    IN <<"[">> \o Items[Len(list)] \o <<"]">>

\* json.load(f) of a list of dictionaries with the given keys, whose values
\* are looked up among the literals of "values" (field name -> set of values);
\* ok is FALSE where json.load raises JSONDecodeError
JsonLoad(text, keys, values) ==
    LET w == 2 + 2 * Len(keys)            \* tokens of one object
        inner == Len(text) - 2
        n == (inner + 1) \div (w + 1)
        At(k, j) == text[1 + (k - 1) * (w + 1) + j]   \* token j of object k
        Decodable(f, tok) == \E v \in values[f] : ToString(v) = tok
        Decode(f, tok) == CHOOSE v \in values[f] : ToString(v) = tok
        ObjectOk(k) ==
            /\ At(k, 1) = "{" /\ At(k, w) = "}"
            /\ k > 1 => text[1 + (k - 1) * (w + 1)] = ","
            /\ \A i \in 1..Len(keys) :
                  /\ At(k, 2 * i) = ToString(keys[i][2])
                  /\ Decodable(keys[i][1], At(k, 2 * i + 1))
        Object(k) ==
            [f \in {keys[i][1] : i \in 1..Len(keys)} |->
                Decode(f, At(k, 1 + 2 * (CHOOSE i \in 1..Len(keys) : keys[i][1] = f)))]
        wellformed ==
            /\ Len(text) >= 2 /\ text[1] = "[" /\ text[Len(text)] = "]"
            /\ inner = 0 \/ (n >= 1 /\ n * w + (n - 1) = inner)
            /\ inner > 0 => \A k \in 1..n : ObjectOk(k)
    IN IF wellformed
         THEN [ok |-> TRUE, value |-> [k \in 1..(IF inner = 0 THEN 0 ELSE n) |-> Object(k)]]
         ELSE [ok |-> FALSE, value |-> <<>>]

\* mutation of WhileCond: the loop test written with <=
WhileCondInclusive(n, target) == n <= target

\* while books_scraped < num_books
WhileCond(n, target) == n < target

\* mutation of PriceFilter: the ceiling itself is let through
PriceFilterInclusive(price, limit) == price <= limit

\* if price < price_limit
PriceFilter(price, limit) == price < limit

\* mutation of TargetReached: the test written with >
TargetReachedStrict(n, target) == n > target

\* if books_scraped >= num_books
TargetReached(n, target) == n >= target

(***************************************************************************)
(* Initial state: neither function has been called.                        *)
(***************************************************************************)
InitWith(file) ==
    /\ bpc = "idle"
    /\ num_books = 0 /\ price_limit = 0 /\ max_retries = 0
    /\ books = <<>> /\ fetched_page = 0 /\ qualifying_seen = 0
    /\ books_scraped = 0 /\ page_num = 0 /\ all_books_data = <<>>
    /\ attempt = 0 /\ book_idx = 0 /\ cat_attempt = 0
    /\ books_json = file /\ written = 0
    /\ aborted = FALSE /\ saw_empty = FALSE
    /\ req = NoReq /\ last_page = 0 /\ page_gets = 0 /\ bslept = FALSE /\ bevent = "none"
    /\ hpc = "idle"
    /\ driver = FALSE /\ hn_attempt = 0 /\ rows = 0 /\ row_i = 0
    /\ news_items = <<>> /\ row_log = <<>>
    /\ quit_calls = 0 /\ hn_return = <<>>
    /\ hn_json = OldFile
    /\ hexit = "none"
    /\ hop = "none" /\ find_calls = 0 /\ hslept = FALSE
    /\ hevent = "none"
    /\ rpc = "idle" /\ rbuf = <<>>
    /\ books_data = <<>> /\ response = <<>>

\* before the first call; books.json holds something that is not a dump
Init == InitWith(OldFile)

(***************************************************************************)
(* scrape_books                                                            *)
(***************************************************************************)
\* lines 13-26: arguments bound, locals of lines 20-22 initialised
Call(n, r) ==
    /\ bpc = "idle" /\ hpc = "idle"
    /\ num_books' = n
    /\ max_retries' = r
    /\ price_limit' = PRICE_LIMIT_DEFAULT
    /\ books_scraped' = 0 /\ page_num' = 1 /\ all_books_data' = <<>>
    /\ bpc' = "while"
    /\ bevent' = "call"
    /\ bslept' = FALSE
    /\ UNCHANGED <<last_page, page_gets>>
    /\ UNCHANGED <<books, fetched_page, qualifying_seen, attempt, book_idx,
                   cat_attempt, books_json, written, aborted, saw_empty, req>>
    /\ UNCHANGED <<hvars, svars>>

\* a call of scrape_books with any arguments
CallScrapeBooks ==
    \E n \in 0..MaxBooks, r \in 0..MaxRetriesArg : Call(n, r)

\* line 27: the while test; entering the body starts the attempt loop
WhileTest ==
    /\ bpc = "while"
    /\ IF WhileCond(books_scraped, num_books)
         THEN /\ bpc' = "attempt" /\ attempt' = 0
         ELSE /\ bpc' = "persist" /\ UNCHANGED attempt
    /\ req' = NoReq
    /\ bevent' = "while"
    /\ bslept' = FALSE
    /\ UNCHANGED <<last_page, page_gets>>
    /\ UNCHANGED <<num_books, price_limit, max_retries, books, fetched_page,
                   qualifying_seen, books_scraped,
                   page_num, all_books_data, book_idx, cat_attempt, books_json, written,
                   aborted, saw_empty>>
    /\ UNCHANGED <<hvars, svars>>

\* mutation of LeavePage: the cursor advances by two
LeavePageSkips ==
    /\ page_num' = page_num + 2
    /\ bpc' = "while"
    /\ books' = <<>> /\ book_idx' = 0 /\ cat_attempt' = 0

\* leaving the attempt loop by break: line 118, then back to the while test
LeavePage ==
    /\ page_num' = page_num + 1
    /\ bpc' = "while"
    /\ books' = <<>> /\ book_idx' = 0 /\ cat_attempt' = 0

\* lines 103-111: RequestException on the page GET, then the sleep
PageRequestException ==
    /\ bpc = "attempt" /\ attempt < max_retries
    /\ req' = PageReq(page_num)
    /\ attempt' = attempt + 1
    /\ bevent' = "page_exception"
    /\ bslept' = TRUE
    /\ last_page' = page_num
    /\ page_gets' = (IF last_page = page_num THEN page_gets + 1 ELSE 1)
    /\ UNCHANGED <<bpc, num_books, price_limit, max_retries, books, fetched_page,
                   qualifying_seen, books_scraped,
                   page_num, all_books_data, book_idx, cat_attempt, books_json, written,
                   aborted, saw_empty>>
    /\ UNCHANGED <<hvars, svars>>

\* mutation of PageNon200: the failed attempt is not counted
PageNon200NotCounted ==
    /\ bpc = "attempt" /\ attempt < max_retries
    /\ req' = PageReq(page_num)
    /\ attempt' = attempt
    /\ bevent' = "page_non200"
    /\ bslept' = TRUE
    /\ last_page' = page_num
    /\ page_gets' = (IF last_page = page_num THEN page_gets + 1 ELSE 1)
    /\ UNCHANGED <<bpc, num_books, price_limit, max_retries, books, fetched_page,
                   qualifying_seen, books_scraped,
                   page_num, all_books_data, book_idx, cat_attempt, books_json, written,
                   aborted, saw_empty>>
    /\ UNCHANGED <<hvars, svars>>

\* lines 99-102, 109: status other than 200, then the sleep
PageNon200 ==
    /\ bpc = "attempt" /\ attempt < max_retries
    /\ req' = PageReq(page_num)
    /\ attempt' = attempt + 1
    /\ bevent' = "page_non200"
    /\ bslept' = TRUE
    /\ last_page' = page_num
    /\ page_gets' = (IF last_page = page_num THEN page_gets + 1 ELSE 1)
    /\ UNCHANGED <<bpc, num_books, price_limit, max_retries, books, fetched_page,
                   qualifying_seen, books_scraped,
                   page_num, all_books_data, book_idx, cat_attempt, books_json, written,
                   aborted, saw_empty>>
    /\ UNCHANGED <<hvars, svars>>

\* the parsed articles of a 200 response for page_num: the site serves the
\* same articles when the same page is fetched again
Served(content) ==
    /\ page_num <= MaxPage
    /\ content \in PageContents
    /\ fetched_page = page_num => content = books

\* number of articles of a page priced below the ceiling
Qualifying(content, limit) ==
    Cardinality({i \in DOMAIN content : content[i] < limit})

\* line 35: books is bound to the articles of the response
ParsePage(content) ==
    /\ books' = content
    /\ fetched_page' = page_num
    /\ qualifying_seen' = IF fetched_page = page_num THEN qualifying_seen
                           ELSE qualifying_seen + Qualifying(content, price_limit)

\* lines 33-39: 200 and no article: break out of the attempt loop only
PageEmpty ==
    /\ bpc = "attempt" /\ attempt < max_retries
    /\ Served(<<>>)
    /\ ParsePage(<<>>)
    /\ req' = PageReq(page_num)
    /\ saw_empty' = TRUE
    /\ LeavePage
    /\ bevent' = "page_empty"
    /\ bslept' = FALSE
    /\ last_page' = page_num
    /\ page_gets' = (IF last_page = page_num THEN page_gets + 1 ELSE 1)
    /\ UNCHANGED <<num_books, price_limit, max_retries, books_scraped,
                   all_books_data, attempt, books_json, written, aborted>>
    /\ UNCHANGED <<hvars, svars>>

\* lines 33-41: 200 with articles: start the book loop
PageItems ==
    /\ bpc = "attempt" /\ attempt < max_retries
    /\ \E content \in PageContents \ {<<>>} :
          /\ Served(content)
          /\ ParsePage(content)
    /\ req' = PageReq(page_num)
    /\ bpc' = "book" /\ book_idx' = 1
    /\ bevent' = "page_items"
    /\ bslept' = FALSE
    /\ last_page' = page_num
    /\ page_gets' = (IF last_page = page_num THEN page_gets + 1 ELSE 1)
    /\ UNCHANGED <<num_books, price_limit, max_retries, books_scraped,
                   page_num, all_books_data, attempt, cat_attempt, books_json, written,
                   aborted, saw_empty>>
    /\ UNCHANGED <<hvars, svars>>

\* mutation of PageExhausted: the break of line 116 is missing, the
\* pagination goes on with the next page
PageExhaustedContinues ==
    /\ bpc = "attempt" /\ attempt >= max_retries
    /\ aborted' = TRUE
    /\ page_num' = page_num + 1
    /\ bpc' = "while"
    /\ books' = <<>>
    /\ req' = NoReq
    /\ bevent' = "page_exhausted"
    /\ bslept' = FALSE
    /\ UNCHANGED <<last_page, page_gets>>
    /\ UNCHANGED <<num_books, price_limit, max_retries, fetched_page,
                   qualifying_seen, books_scraped,
                   all_books_data, attempt, book_idx, cat_attempt,
                   books_json, written, saw_empty>>
    /\ UNCHANGED <<hvars, svars>>

\* lines 112-116: the attempt loop ran out: break out of the while loop
PageExhausted ==
    /\ bpc = "attempt" /\ attempt >= max_retries
    /\ aborted' = TRUE
    /\ bpc' = "persist"
    /\ books' = <<>>
    /\ req' = NoReq
    /\ bevent' = "page_exhausted"
    /\ bslept' = FALSE
    /\ UNCHANGED <<last_page, page_gets>>
    /\ UNCHANGED <<num_books, price_limit, max_retries, fetched_page,
                   qualifying_seen, books_scraped,
                   page_num, all_books_data, attempt, book_idx, cat_attempt,
                   books_json, written, saw_empty>>
    /\ UNCHANGED <<hvars, svars>>

\* next iteration of "for book in books"; when the loop is over, its else
\* clause (line 95) breaks out of the attempt loop
NextBook ==
    IF book_idx < Len(books)
      THEN /\ book_idx' = book_idx + 1 /\ bpc' = "book" /\ cat_attempt' = 0
           /\ UNCHANGED <<page_num, books>>
      ELSE LeavePage

\* lines 42-44: a summary that does not parse (missing tag, float() ValueError):
\* not a RequestException, so nothing catches it
BookParseError ==
    /\ bpc = "book"
    /\ bpc' = "raised"
    /\ req' = NoReq
    /\ bevent' = "parse_error"
    /\ bslept' = FALSE
    /\ UNCHANGED <<last_page, page_gets>>
    /\ UNCHANGED <<num_books, price_limit, max_retries, books, fetched_page,
                   qualifying_seen, books_scraped,
                   page_num, all_books_data, attempt, book_idx, cat_attempt,
                   books_json, written, aborted, saw_empty>>
    /\ UNCHANGED <<hvars, svars>>

\* line 46 false: nothing more is done for this book
BookFiltered ==
    /\ bpc = "book"
    /\ ~PriceFilter(books[book_idx], price_limit)
    /\ NextBook
    /\ req' = NoReq
    /\ bevent' = "filtered"
    /\ bslept' = FALSE
    /\ UNCHANGED <<last_page, page_gets>>
    /\ UNCHANGED <<num_books, price_limit, max_retries, fetched_page,
                   qualifying_seen, books_scraped,
                   all_books_data, attempt, books_json, written, aborted, saw_empty>>
    /\ UNCHANGED <<hvars, svars>>

\* line 46 true, lines 47-53: start the category loop
BookAccepted ==
    /\ bpc = "book"
    /\ PriceFilter(books[book_idx], price_limit)
    /\ bpc' = "cat" /\ cat_attempt' = 0
    /\ req' = NoReq
    /\ bevent' = "accepted"
    /\ bslept' = FALSE
    /\ UNCHANGED <<last_page, page_gets>>
    /\ UNCHANGED <<num_books, price_limit, max_retries, books, fetched_page,
                   qualifying_seen, books_scraped,
                   page_num, all_books_data, attempt, book_idx, books_json, written,
                   aborted, saw_empty>>
    /\ UNCHANGED <<hvars, svars>>

\* mutation of CatOk: the record is inserted at the front of the list
CatOkPrepends ==
    /\ bpc = "cat" /\ cat_attempt < max_retries
    /\ req' = BookReq(page_num, book_idx)
    /\ all_books_data' = <<BookRecord(page_num, book_idx, books[book_idx])>>
                             \o all_books_data
    /\ books_scraped' = books_scraped + 1
    /\ IF TargetReached(books_scraped + 1, num_books)
         THEN LeavePage
         ELSE NextBook
    /\ bevent' = "appended"
    /\ bslept' = FALSE
    /\ UNCHANGED <<last_page, page_gets>>
    /\ UNCHANGED <<num_books, price_limit, max_retries, fetched_page,
                   qualifying_seen, attempt,
                   books_json, written, aborted, saw_empty>>
    /\ UNCHANGED <<hvars, svars>>

\* lines 55-66, 82-93: category resolved, record appended, target test
CatOk ==
    /\ bpc = "cat" /\ cat_attempt < max_retries
    /\ req' = BookReq(page_num, book_idx)
    /\ all_books_data' = Append(all_books_data,
                                BookRecord(page_num, book_idx, books[book_idx]))
    /\ books_scraped' = books_scraped + 1
    /\ IF TargetReached(books_scraped + 1, num_books)
         THEN LeavePage
         ELSE NextBook
    /\ bevent' = "appended"
    /\ bslept' = FALSE
    /\ UNCHANGED <<last_page, page_gets>>
    /\ UNCHANGED <<num_books, price_limit, max_retries, fetched_page,
                   qualifying_seen, attempt,
                   books_json, written, aborted, saw_empty>>
    /\ UNCHANGED <<hvars, svars>>

\* mutation of CatRetryable: the sleep of line 74 is missing
CatRetryableNoSleep ==
    /\ bpc = "cat" /\ cat_attempt < max_retries
    /\ req' = BookReq(page_num, book_idx)
    /\ cat_attempt' = cat_attempt + 1
    /\ bevent' = "cat_failed"
    /\ bslept' = FALSE
    /\ UNCHANGED <<last_page, page_gets>>
    /\ UNCHANGED <<bpc, num_books, price_limit, max_retries, books, fetched_page,
                   qualifying_seen, books_scraped,
                   page_num, all_books_data, attempt, book_idx, books_json, written,
                   aborted, saw_empty>>
    /\ UNCHANGED <<hvars, svars>>

\* lines 67-74: ConnectionError or AttributeError, then the sleep
CatRetryable ==
    /\ bpc = "cat" /\ cat_attempt < max_retries
    /\ req' = BookReq(page_num, book_idx)
    /\ cat_attempt' = cat_attempt + 1
    /\ bevent' = "cat_failed"
    /\ bslept' = TRUE
    /\ UNCHANGED <<last_page, page_gets>>
    /\ UNCHANGED <<bpc, num_books, price_limit, max_retries, books, fetched_page,
                   qualifying_seen, books_scraped,
                   page_num, all_books_data, attempt, book_idx, books_json, written,
                   aborted, saw_empty>>
    /\ UNCHANGED <<hvars, svars>>

\* a RequestException that is not a ConnectionError (read timeout, too many
\* redirects): passes lines 67-70, is caught at line 103, and after the
\* sleep the next page attempt starts
CatRequestException ==
    /\ bpc = "cat" /\ cat_attempt < max_retries
    /\ req' = BookReq(page_num, book_idx)
    /\ bpc' = "attempt" /\ attempt' = attempt + 1
    /\ book_idx' = 0 /\ cat_attempt' = 0
    /\ bevent' = "cat_request_exception"
    /\ bslept' = TRUE
    /\ UNCHANGED <<last_page, page_gets>>
    /\ UNCHANGED <<num_books, price_limit, max_retries, books, fetched_page,
                   qualifying_seen, books_scraped,
                   page_num, all_books_data, books_json, written,
                   aborted, saw_empty>>
    /\ UNCHANGED <<hvars, svars>>

\* any other exception of lines 55-65 (IndexError of find_all("a")[2]):
\* caught neither at line 67 nor at line 103
CatOtherException ==
    /\ bpc = "cat" /\ cat_attempt < max_retries
    /\ req' = BookReq(page_num, book_idx)
    /\ bpc' = "raised"
    /\ bevent' = "cat_other_exception"
    /\ bslept' = FALSE
    /\ UNCHANGED <<last_page, page_gets>>
    /\ UNCHANGED <<num_books, price_limit, max_retries, books, fetched_page,
                   qualifying_seen, books_scraped,
                   page_num, all_books_data, attempt, book_idx, cat_attempt,
                   books_json, written, aborted, saw_empty>>
    /\ UNCHANGED <<hvars, svars>>

\* mutation of CatExhausted: the continue of line 79 is missing, the record
\* is appended with category None
CatExhaustedAppends ==
    /\ bpc = "cat" /\ cat_attempt >= max_retries
    /\ all_books_data' = Append(all_books_data,
                                [BookRecord(page_num, book_idx, books[book_idx])
                                   EXCEPT !.category = "None"])
    /\ books_scraped' = books_scraped + 1
    /\ IF TargetReached(books_scraped + 1, num_books)
         THEN LeavePage
         ELSE NextBook
    /\ req' = NoReq
    /\ bevent' = "cat_exhausted"
    /\ bslept' = FALSE
    /\ UNCHANGED <<last_page, page_gets>>
    /\ UNCHANGED <<num_books, price_limit, max_retries, fetched_page,
                   qualifying_seen, attempt,
                   books_json, written, aborted, saw_empty>>
    /\ UNCHANGED <<hvars, svars>>

\* lines 75-79: the category loop ran out: continue with the next book
CatExhausted ==
    /\ bpc = "cat" /\ cat_attempt >= max_retries
    /\ NextBook
    /\ req' = NoReq
    /\ bevent' = "cat_exhausted"
    /\ bslept' = FALSE
    /\ UNCHANGED <<last_page, page_gets>>
    /\ UNCHANGED <<num_books, price_limit, max_retries, fetched_page,
                   qualifying_seen, books_scraped,
                   all_books_data, attempt, books_json, written, aborted, saw_empty>>
    /\ UNCHANGED <<hvars, svars>>

\* mutation of PersistOpen: the file is opened in append mode
PersistOpenAppends ==
    /\ bpc = "persist"
    /\ books_json' = books_json /\ written' = 0
    /\ bpc' = "dump"
    /\ bevent' = "opened"
    /\ req' = NoReq
    /\ bslept' = FALSE
    /\ UNCHANGED <<last_page, page_gets>>
    /\ UNCHANGED <<num_books, price_limit, max_retries, books, fetched_page,
                   qualifying_seen, books_scraped,
                   page_num, all_books_data, attempt, book_idx, cat_attempt,
                   aborted, saw_empty>>
    /\ UNCHANGED <<hvars, svars>>

\* line 122: open(output_file, "w") truncates the file
PersistOpen ==
    /\ bpc = "persist"
    /\ books_json' = <<>> /\ written' = 0
    /\ bpc' = "dump"
    /\ bevent' = "opened"
    /\ req' = NoReq
    /\ bslept' = FALSE
    /\ UNCHANGED <<last_page, page_gets>>
    /\ UNCHANGED <<num_books, price_limit, max_retries, books, fetched_page,
                   qualifying_seen, books_scraped,
                   page_num, all_books_data, attempt, book_idx, cat_attempt,
                   aborted, saw_empty>>
    /\ UNCHANGED <<hvars, svars>>

\* line 123: json.dump writes into the buffer of the file object; each time
\* the buffer is full its FlushSize tokens are written to the file
PersistFlush ==
    /\ bpc = "dump"
    /\ written + FlushSize < Len(JsonDump(all_books_data, BookKeys))
    /\ books_json' = books_json \o SubSeq(JsonDump(all_books_data, BookKeys),
                                          written + 1, written + FlushSize)
    /\ written' = written + FlushSize
    /\ bevent' = "flushed"
    /\ UNCHANGED bpc
    /\ req' = NoReq
    /\ bslept' = FALSE
    /\ UNCHANGED <<last_page, page_gets>>
    /\ UNCHANGED <<num_books, price_limit, max_retries, books, fetched_page,
                   qualifying_seen, books_scraped,
                   page_num, all_books_data, attempt, book_idx, cat_attempt,
                   aborted, saw_empty>>
    /\ UNCHANGED <<hvars, svars>>

\* lines 122-127: leaving the with block closes the file, which writes the
\* rest of the buffer
PersistOk ==
    /\ bpc = "dump"
    /\ written + FlushSize >= Len(JsonDump(all_books_data, BookKeys))
    /\ books_json' = books_json \o SubSeq(JsonDump(all_books_data, BookKeys),
                                          written + 1,
                                          Len(JsonDump(all_books_data, BookKeys)))
    /\ written' = Len(JsonDump(all_books_data, BookKeys))
    /\ bpc' = "done"
    /\ bevent' = "saved"
    /\ req' = NoReq
    /\ bslept' = FALSE
    /\ UNCHANGED <<last_page, page_gets>>
    /\ UNCHANGED <<num_books, price_limit, max_retries, books, fetched_page,
                   qualifying_seen, books_scraped,
                   page_num, all_books_data, attempt, book_idx, cat_attempt,
                   aborted, saw_empty>>
    /\ UNCHANGED <<hvars, svars>>

\* lines 128-129: open() or a write fails with IOError, logged; what has
\* reached the file stays there
PersistIOError ==
    /\ bpc \in {"persist", "dump"}
    /\ bpc' = "done"
    /\ bevent' = "save_failed"
    /\ UNCHANGED <<books_json, written>>
    /\ req' = NoReq
    /\ bslept' = FALSE
    /\ UNCHANGED <<last_page, page_gets>>
    /\ UNCHANGED <<num_books, price_limit, max_retries, books, fetched_page,
                   qualifying_seen, books_scraped,
                   page_num, all_books_data, attempt, book_idx, cat_attempt,
                   aborted, saw_empty>>
    /\ UNCHANGED <<hvars, svars>>

NextBooks ==
    \/ CallScrapeBooks \/ WhileTest
    \/ PageRequestException \/ PageNon200 \/ PageEmpty \/ PageItems \/ PageExhausted
    \/ BookParseError \/ BookFiltered \/ BookAccepted
    \/ CatOk \/ CatRetryable \/ CatRequestException \/ CatOtherException \/ CatExhausted
    \/ PersistOpen \/ PersistFlush \/ PersistOk \/ PersistIOError

(***************************************************************************)
(* scrape_hacker_news                                                      *)
(***************************************************************************)
\* outcome of the lookups of one row (lines 146-159)
\*   title, sub : "ok" | "NoSuchElement" | "Exception"
\*   score      : "ok" | "NoSuchElement" | "ValueError" | "Exception"
\* a lookup that is not reached is "-"
RowOutcomes ==
    {[title |-> t, sub |-> "-", score |-> "-", value |-> 0] :
        t \in {"NoSuchElement", "Exception"}}
    \cup {[title |-> "ok", sub |-> s, score |-> "-", value |-> 0] :
        s \in {"NoSuchElement", "Exception"}}
    \cup {[title |-> "ok", sub |-> "ok", score |-> c, value |-> 0] :
        c \in {"NoSuchElement", "ValueError", "Exception"}}
    \cup {[title |-> "ok", sub |-> "ok", score |-> "ok", value |-> v] :
        v \in 0..MaxScore}

\* text and href of the title anchor of row i
RowTitle(i) == "title" \o ToString(i)
RowUrl(i) == "url" \o ToString(i)

\* lines 141-169 and the handlers at 160-167: the dictionary built for row i
\* from the outcome o of its lookups
Headline(i, o) ==
    [title |-> IF o.title = "ok" THEN RowTitle(i) ELSE "N/A",
     url |-> IF o.title = "ok" THEN RowUrl(i) ELSE "N/A",
     score |-> IF o.score = "ok" THEN o.value ELSE 0]

\* the values the fields of a headline can take
HeadlineValues ==
    [title |-> {RowTitle(i) : i \in 1..MaxRows} \cup {"N/A"},
     score |-> 0..MaxScore,
     url |-> {RowUrl(i) : i \in 1..MaxRows} \cup {"N/A"}]

\* mutation of RowAppended: the append moved out of the try block, so that
\* it is reached whatever the lookups did
RowAppendedAlways(o) == TRUE

\* line 169 is reached: no exception left the inner try blocks towards the
\* handlers at 174 and 178
RowAppended(o) ==
    /\ o.title = "ok"
    /\ o.sub = "ok"
    /\ o.score \in {"ok", "NoSuchElement", "ValueError"}

\* the call: lines 31-47
CallScrapeHackerNews ==
    /\ bpc = "idle" /\ hpc = "idle"
    /\ hpc' = "start"
    /\ driver' = FALSE /\ hn_attempt' = 0
    /\ hevent' = "call"
    /\ hslept' = FALSE
    /\ hop' = "none"
    /\ find_calls' = 0
    /\ UNCHANGED <<rows, row_i, news_items, row_log, quit_calls, hn_return,
                   hn_json, hexit>>
    /\ UNCHANGED <<bvars, svars>>

\* lines 54-57
StartOk ==
    /\ hpc = "start" /\ hn_attempt < MAX_RETRIES
    /\ driver' = TRUE
    /\ hpc' = "nav" /\ hn_attempt' = 0
    /\ hevent' = "started"
    /\ hslept' = FALSE
    /\ hop' = "none"
    /\ UNCHANGED find_calls
    /\ UNCHANGED <<rows, row_i, news_items, row_log, quit_calls, hn_return,
                   hn_json, hexit>>
    /\ UNCHANGED <<bvars, svars>>

\* lines 58-68: WebDriverException; the last attempt returns []
\* (outside the try of line 73: no finally)
StartWebDriverException ==
    /\ hpc = "start" /\ hn_attempt < MAX_RETRIES
    /\ IF hn_attempt < MAX_RETRIES - 1
         THEN /\ hn_attempt' = hn_attempt + 1
              /\ UNCHANGED <<hpc, hn_return, hexit>>
         ELSE /\ hpc' = "returned" /\ hn_return' = <<>>
              /\ hexit' = "start_exhausted"
              /\ UNCHANGED hn_attempt
    /\ hevent' = "start_failed"
    /\ hslept' = (hn_attempt < MAX_RETRIES - 1)
    /\ hop' = "none"
    /\ UNCHANGED find_calls
    /\ UNCHANGED <<driver, rows, row_i, news_items, row_log, quit_calls, hn_json>>
    /\ UNCHANGED <<bvars, svars>>

\* lines 54-55 raise something that is not a WebDriverException (the driver
\* download of ChromeDriverManager().install() fails): nothing catches it
StartOtherException ==
    /\ hpc = "start" /\ hn_attempt < MAX_RETRIES
    /\ hpc' = "raised"
    /\ hexit' = "start_exception"
    /\ hevent' = "start_raised"
    /\ hslept' = FALSE
    /\ hop' = "none"
    /\ UNCHANGED find_calls
    /\ UNCHANGED <<driver, hn_attempt, rows, row_i, news_items, row_log,
                   quit_calls, hn_return, hn_json>>
    /\ UNCHANGED <<bvars, svars>>

\* a return statement inside the try of line 73: the value is kept and the
\* finally clause runs next
ReturnInTry(value, why) ==
    /\ hn_return' = value
    /\ hexit' = why
    /\ hpc' = "finally"

\* lines 81-86
NavOk ==
    /\ hpc = "nav" /\ hn_attempt < MAX_RETRIES
    /\ hpc' = "find" /\ hn_attempt' = 0
    /\ hevent' = "navigated"
    /\ hslept' = TRUE
    /\ hop' = "get"
    /\ UNCHANGED find_calls
    /\ UNCHANGED <<driver, rows, row_i, news_items, row_log, quit_calls,
                   hn_return, hn_json, hexit>>
    /\ UNCHANGED <<bvars, svars>>

\* mutation of NavWebDriverException: driver.quit() of line 98 is called
\* after every failed attempt, not only the last
NavWebDriverExceptionQuitsEarly ==
    /\ hpc = "nav" /\ hn_attempt < MAX_RETRIES
    /\ quit_calls' = quit_calls + (IF driver THEN 1 ELSE 0)
    /\ IF hn_attempt < MAX_RETRIES - 1
         THEN /\ hn_attempt' = hn_attempt + 1
              /\ UNCHANGED <<hpc, hn_return, hexit>>
         ELSE /\ ReturnInTry(<<>>, "nav_exhausted")
              /\ UNCHANGED hn_attempt
    /\ hevent' = "nav_failed"
    /\ hslept' = (hn_attempt < MAX_RETRIES - 1)
    /\ hop' = "get"
    /\ UNCHANGED find_calls
    /\ UNCHANGED <<driver, rows, row_i, news_items, row_log, hn_json>>
    /\ UNCHANGED <<bvars, svars>>

\* mutation of NavWebDriverException: the return of line 99 is missing, the
\* function goes on to the row lookup
NavWebDriverExceptionFallsThrough ==
    /\ hpc = "nav" /\ hn_attempt < MAX_RETRIES
    /\ IF hn_attempt < MAX_RETRIES - 1
         THEN /\ hn_attempt' = hn_attempt + 1
              /\ UNCHANGED <<hpc, hn_return, hexit, quit_calls>>
         ELSE /\ quit_calls' = quit_calls + (IF driver THEN 1 ELSE 0)
              /\ hpc' = "find" /\ hn_attempt' = 0
              /\ hexit' = "nav_exhausted"
              /\ UNCHANGED hn_return
    /\ hevent' = "nav_failed"
    /\ hslept' = (hn_attempt < MAX_RETRIES - 1)
    /\ hop' = "get"
    /\ UNCHANGED find_calls
    /\ UNCHANGED <<driver, rows, row_i, news_items, row_log, hn_json>>
    /\ UNCHANGED <<bvars, svars>>

\* lines 87-99: WebDriverException or TimeoutException; the last attempt
\* calls driver.quit() and returns [] (an exception of that quit() is caught
\* at line 195, which returns [] as well)
NavWebDriverException ==
    /\ hpc = "nav" /\ hn_attempt < MAX_RETRIES
    /\ IF hn_attempt < MAX_RETRIES - 1
         THEN /\ hn_attempt' = hn_attempt + 1
              /\ UNCHANGED <<hpc, hn_return, hexit, quit_calls>>
         ELSE /\ quit_calls' = quit_calls + (IF driver THEN 1 ELSE 0)
              /\ ReturnInTry(<<>>, "nav_exhausted")
              /\ UNCHANGED hn_attempt
    /\ hevent' = "nav_failed"
    /\ hslept' = (hn_attempt < MAX_RETRIES - 1)
    /\ hop' = "get"
    /\ UNCHANGED find_calls
    /\ UNCHANGED <<driver, rows, row_i, news_items, row_log, hn_json>>
    /\ UNCHANGED <<bvars, svars>>

\* lines 195-199: any other exception inside the try
GeneralException(at) ==
    /\ hpc = at
    /\ ReturnInTry(<<>>, "exception")
    /\ hevent' = "general_exception"
    /\ hslept' = FALSE
    /\ hop' = (IF at = "nav" THEN "get" ELSE "find_elements")
    /\ find_calls' = find_calls + (IF at = "find" THEN 1 ELSE 0)
    /\ UNCHANGED <<driver, hn_attempt, rows, row_i, news_items, row_log,
                   quit_calls, hn_json>>
    /\ UNCHANGED <<bvars, svars>>

NavOtherException == hn_attempt < MAX_RETRIES /\ GeneralException("nav")

\* lines 109-112: a non-empty result ends the loop; line 132 is false
FindRows ==
    /\ hpc = "find" /\ hn_attempt < MAX_RETRIES
    /\ \E n \in 1..MaxRows : rows' = n
    /\ hpc' = "row" /\ row_i' = 1
    /\ news_items' = <<>>
    /\ hevent' = "rows_found"
    /\ hslept' = FALSE
    /\ hop' = "find_elements"
    /\ find_calls' = find_calls + 1
    /\ UNCHANGED <<driver, hn_attempt, row_log, quit_calls, hn_return, hn_json, hexit>>
    /\ UNCHANGED <<bvars, svars>>

\* mutation of FindEmpty: the sleep of line 117 is missing
FindEmptyNoSleep ==
    /\ hpc = "find" /\ hn_attempt < MAX_RETRIES
    /\ rows' = 0
    /\ hn_attempt' = hn_attempt + 1
    /\ hevent' = "rows_empty"
    /\ hslept' = FALSE
    /\ hop' = "find_elements"
    /\ find_calls' = find_calls + 1
    /\ UNCHANGED <<hpc, driver, row_i, news_items, row_log, quit_calls,
                   hn_return, hn_json, hexit>>
    /\ UNCHANGED <<bvars, svars>>

\* lines 113-117: empty result, sleep, next attempt
FindEmpty ==
    /\ hpc = "find" /\ hn_attempt < MAX_RETRIES
    /\ rows' = 0
    /\ hn_attempt' = hn_attempt + 1
    /\ hevent' = "rows_empty"
    /\ hslept' = TRUE
    /\ hop' = "find_elements"
    /\ find_calls' = find_calls + 1
    /\ UNCHANGED <<hpc, driver, row_i, news_items, row_log, quit_calls,
                   hn_return, hn_json, hexit>>
    /\ UNCHANGED <<bvars, svars>>

\* lines 118-130: NoSuchElementException; the last attempt quits and returns []
FindNoSuchElement ==
    /\ hpc = "find" /\ hn_attempt < MAX_RETRIES
    /\ IF hn_attempt < MAX_RETRIES - 1
         THEN /\ hn_attempt' = hn_attempt + 1
              /\ UNCHANGED <<hpc, hn_return, hexit, quit_calls>>
         ELSE /\ quit_calls' = quit_calls + (IF driver THEN 1 ELSE 0)
              /\ ReturnInTry(<<>>, "find_exhausted")
              /\ UNCHANGED hn_attempt
    /\ hevent' = "find_failed"
    /\ hslept' = (hn_attempt < MAX_RETRIES - 1)
    /\ hop' = "find_elements"
    /\ find_calls' = find_calls + 1
    /\ UNCHANGED <<driver, rows, row_i, news_items, row_log, hn_json>>
    /\ UNCHANGED <<bvars, svars>>

FindOtherException == hn_attempt < MAX_RETRIES /\ GeneralException("find")

\* lines 132-138: the loop ended without break, rows is empty
NoRows ==
    /\ hpc = "find" /\ hn_attempt >= MAX_RETRIES
    /\ rows = 0
    /\ quit_calls' = quit_calls + (IF driver THEN 1 ELSE 0)
    /\ ReturnInTry(<<>>, "no_rows")
    /\ hevent' = "no_rows"
    /\ hslept' = FALSE
    /\ hop' = "none"
    /\ UNCHANGED find_calls
    /\ UNCHANGED <<driver, hn_attempt, rows, row_i, news_items, row_log, hn_json>>
    /\ UNCHANGED <<bvars, svars>>

\* mutation of ExtractRow: without the handler of line 178 an unexpected
\* exception of a row reaches the handler of line 195
ExtractRowUnguarded ==
    /\ hpc = "row" /\ row_i <= rows
    /\ \E o \in RowOutcomes :
          /\ row_log' = Append(row_log, o)
          /\ news_items' = IF RowAppended(o)
                             THEN Append(news_items, Headline(row_i, o))
                             ELSE news_items
    /\ IF "Exception" \in {row_log'[Len(row_log')].title, row_log'[Len(row_log')].sub,
                          row_log'[Len(row_log')].score}
         THEN /\ ReturnInTry(<<>>, "exception") /\ UNCHANGED row_i
         ELSE /\ UNCHANGED <<hn_return, hexit>>
              /\ IF row_i < rows
                   THEN /\ row_i' = row_i + 1 /\ UNCHANGED hpc
                   ELSE /\ hpc' = "persist" /\ UNCHANGED row_i
    /\ hevent' = "row"
    /\ hslept' = FALSE
    /\ hop' = "find_element"
    /\ UNCHANGED find_calls
    /\ UNCHANGED <<driver, hn_attempt, rows, quit_calls, hn_json>>
    /\ UNCHANGED <<bvars, svars>>

\* lines 140-181: one iteration of the row loop
ExtractRow ==
    /\ hpc = "row" /\ row_i <= rows
    /\ \E o \in RowOutcomes :
          /\ row_log' = Append(row_log, o)
          /\ news_items' = IF RowAppended(o)
                             THEN Append(news_items, Headline(row_i, o))
                             ELSE news_items
    /\ IF row_i < rows
         THEN /\ row_i' = row_i + 1 /\ UNCHANGED hpc
         ELSE /\ hpc' = "persist" /\ UNCHANGED row_i
    /\ hevent' = "row"
    /\ hslept' = FALSE
    /\ hop' = "find_element"
    /\ UNCHANGED find_calls
    /\ UNCHANGED <<driver, hn_attempt, rows, quit_calls, hn_return, hn_json, hexit>>
    /\ UNCHANGED <<bvars, svars>>

\* lines 184-190
HnPersistOk ==
    /\ hpc = "persist"
    /\ hn_json' = JsonDump(news_items, HeadlineKeys)
    /\ ReturnInTry(news_items, "saved")
    /\ hevent' = "saved"
    /\ hslept' = FALSE
    /\ hop' = "none"
    /\ UNCHANGED find_calls
    /\ UNCHANGED <<driver, hn_attempt, rows, row_i, news_items, row_log, quit_calls>>
    /\ UNCHANGED <<bvars, svars>>

\* mutation of HnPersistIOError: the handler of line 191 returns []
HnPersistIOErrorReturnsEmpty ==
    /\ hpc = "persist"
    /\ ReturnInTry(<<>>, "save_failed")
    /\ hevent' = "save_failed"
    /\ hslept' = FALSE
    /\ hop' = "none"
    /\ UNCHANGED find_calls
    /\ UNCHANGED <<driver, hn_attempt, rows, row_i, news_items, row_log,
                   quit_calls, hn_json>>
    /\ UNCHANGED <<bvars, svars>>

\* lines 191-193
HnPersistIOError ==
    /\ hpc = "persist"
    /\ ReturnInTry(news_items, "save_failed")
    /\ hevent' = "save_failed"
    /\ hslept' = FALSE
    /\ hop' = "none"
    /\ UNCHANGED find_calls
    /\ UNCHANGED <<driver, hn_attempt, rows, row_i, news_items, row_log,
                   quit_calls, hn_json>>
    /\ UNCHANGED <<bvars, svars>>

\* mutation of Finally: the finally clause does not call driver.quit()
FinallyWithoutQuit ==
    /\ hpc = "finally"
    /\ hpc' = "returned"
    /\ hevent' = "finally"
    /\ hslept' = FALSE
    /\ hop' = "none"
    /\ UNCHANGED find_calls
    /\ UNCHANGED <<driver, hn_attempt, rows, row_i, news_items, row_log,
                   quit_calls, hn_return, hn_json, hexit>>
    /\ UNCHANGED <<bvars, svars>>

\* lines 200-204, driver.quit() returns: the pending return completes
Finally ==
    /\ hpc = "finally"
    /\ quit_calls' = quit_calls + (IF driver THEN 1 ELSE 0)
    /\ hpc' = "returned"
    /\ hevent' = "finally"
    /\ hslept' = FALSE
    /\ hop' = "none"
    /\ UNCHANGED find_calls
    /\ UNCHANGED <<driver, hn_attempt, rows, row_i, news_items, row_log,
                   hn_return, hn_json, hexit>>
    /\ UNCHANGED <<bvars, svars>>

\* lines 200-204, driver.quit() raises: the exception replaces the return
FinallyQuitRaises ==
    /\ hpc = "finally" /\ driver
    /\ quit_calls' = quit_calls + 1
    /\ hpc' = "raised"
    /\ hevent' = "finally_raised"
    /\ hslept' = FALSE
    /\ hop' = "none"
    /\ UNCHANGED find_calls
    /\ UNCHANGED <<driver, hn_attempt, rows, row_i, news_items, row_log,
                   hn_return, hn_json, hexit>>
    /\ UNCHANGED <<bvars, svars>>

NextHN ==
    \/ CallScrapeHackerNews
    \/ StartOk \/ StartWebDriverException \/ StartOtherException
    \/ NavOk \/ NavWebDriverException \/ NavOtherException
    \/ FindRows \/ FindEmpty \/ FindNoSuchElement \/ FindOtherException \/ NoRows
    \/ ExtractRow
    \/ HnPersistOk \/ HnPersistIOError
    \/ Finally \/ FinallyQuitRaises

(***************************************************************************)
(* main.py: GET /books, served while the background task of POST /init     *)
(* (scrape_books, run in a worker thread) may be writing books.json        *)
(***************************************************************************)
\* what an earlier run left in books.json: a dump of a list this run cannot
\* produce (its one book costs exactly the ceiling)
PrevBooks == <<BookRecord(1, 1, PRICE_LIMIT_DEFAULT)>>
PrevFile == JsonDump(PrevBooks, BookKeys)

\* values of the category query parameter; "None" is the parameter left out
Categories == {"None", "cat", "other"}

\* mutation of LoadBooksFromJson: a text that breaks off is parsed up to its
\* last complete object
LoadBooksFromJsonLenient(text) ==
    LET w == 2 + 2 * Len(BookKeys)
        n == IF Len(text) = 0 THEN 0 ELSE (Len(text) - 1) \div (w + 1)
        complete == JsonLoad(text, BookKeys, BookValues)
        partial == JsonLoad(SubSeq(text, 1, n * (w + 1)) \o <<"]">>,
                            BookKeys, BookValues)
    IN  IF complete.ok THEN complete.value
        ELSE IF n >= 1 /\ partial.ok THEN partial.value ELSE <<>>

\* lines 50-72: json.load of the text read; a text that is not one JSON
\* document raises JSONDecodeError, which returns []
LoadBooksFromJson(text) ==
    LET loaded == JsonLoad(text, BookKeys, BookValues)
    IN  IF loaded.ok THEN loaded.value ELSE <<>>

\* lines 105-123: the category filter (every record passes Book(**book))
FilterBooks(list, c) ==
    IF c = "None" THEN list
    ELSE SelectSeq(list, LAMBDA b : b.category = c)

\* lines 93-101, 52-54: the request arrives, the file is opened and f.read()
\* gets what the file holds at this moment
GetBooksOpen ==
    /\ rpc # "reading"
    /\ rpc' = "reading"
    /\ rbuf' = books_json
    /\ books_data' = <<>> /\ response' = <<>>
    /\ UNCHANGED <<bvars, hvars>>

\* line 54: f.read() reads on until a read returns nothing; the file has
\* grown past what was read
GetBooksRead ==
    /\ rpc = "reading"
    /\ rbuf # <<>> /\ Len(books_json) > Len(rbuf)
    /\ rbuf' = rbuf \o SubSeq(books_json, Len(rbuf) + 1, Len(books_json))
    /\ UNCHANGED <<rpc, books_data, response>>
    /\ UNCHANGED <<bvars, hvars>>

\* lines 54-72, 101-143: end of file, the text is parsed and the response
\* built
GetBooksRespond ==
    /\ rpc = "reading"
    /\ rbuf = <<>> \/ Len(books_json) <= Len(rbuf)
    /\ books_data' = LoadBooksFromJson(rbuf)
    /\ \E c \in Categories :
          response' = FilterBooks(LoadBooksFromJson(rbuf), c)
    /\ rpc' = "responded"
    /\ rbuf' = <<>>
    /\ UNCHANGED <<bvars, hvars>>

Next == NextBooks \/ NextHN

Spec == Init /\ [][Next]_vars

\* main.py line 88: POST /init hands scrape_books to the background tasks
\* with its default arguments (num_books=50 and max_retries=3, here the
\* largest values of their ranges)
PostInit == Call(MaxBooks, MaxRetriesArg)

\* the scraping steps of the background task
BackgroundTask ==
    \/ WhileTest
    \/ PageRequestException \/ PageNon200 \/ PageEmpty \/ PageItems \/ PageExhausted
    \/ BookParseError \/ BookFiltered \/ BookAccepted
    \/ CatOk \/ CatRetryable \/ CatRequestException \/ CatOtherException \/ CatExhausted
    \/ PersistOpen \/ PersistFlush \/ PersistOk \/ PersistIOError

\* the server with books.json left by an earlier run: POST /init starts
\* scrape_books in the background, GET /books is served at any time
ServerInit == InitWith(PrevFile)
NextServer ==
    \/ PostInit \/ BackgroundTask
    \/ GetBooksOpen \/ GetBooksRead \/ GetBooksRespond
ServerSpec == ServerInit /\ [][NextServer]_vars

\* scrape_books on its own, running on once it has been called: it is
\* straight-line synchronous code, and every blocking call it makes
\* (requests.get, time.sleep, the file write) is taken to come back with a
\* result or an exception.
LiveSpec ==
    /\ Init /\ [][NextBooks]_vars
    /\ WF_vars(NextBooks)

TypeOK ==
    /\ bpc \in {"idle", "while", "attempt", "book", "cat", "persist", "dump",
                "done", "raised"}
    /\ hpc \in {"idle", "start", "nav", "find", "row", "persist", "finally",
                "returned", "raised"}
    /\ books_scraped = Len(all_books_data)
    /\ quit_calls \in 0..2

(***************************************************************************)
(* Properties.                                                             *)
(***************************************************************************)

\* C1: once a catalog page has answered 200 with an empty item list, no
\* step of scrape_books issues another catalog page request.
C1_NoPageFetchAfterEmptyPage ==
    [][saw_empty => req'.kind # "page"]_vars

\* C2: when scrape_hacker_news has returned after a fully successful run or
\* after navigation used up its MAX_RETRIES attempts, driver.quit() has been
\* invoked exactly once.
C2_QuitExactlyOnce ==
    (hpc = "returned" /\ hexit \in {"saved", "nav_exhausted"}) => quit_calls = 1

\* C3: once a WebDriver was acquired, scrape_hacker_news does not leave
\* (by return or by exception) before driver.quit() was invoked at least once.
C3_QuitOnEveryExit ==
    (driver /\ hpc \in {"returned", "raised"}) => quit_calls >= 1

C3_Witness ==
    /\ driver /\ hpc = "returned" /\ quit_calls = 1
    /\ hexit \in {"saved", "exception"}

\* rows of the log for which the title anchor and the metadata row were
\* found and the score lookup raised nothing but NoSuchElementException,
\* ValueError or IndexError
C4_KeptRows ==
    {i \in 1..Len(row_log) :
        /\ row_log[i].title = "ok" /\ row_log[i].sub = "ok"
        /\ row_log[i].score # "Exception"}

C6_Qualifying == qualifying_seen

\* C6 as claimed: when the target count is at most the number of qualifying
\* catalog items, scrape_books ends with exactly num_books collected items
\* (stated for runs that are allowed at least one attempt per page).
C6_ExactlyTarget ==
    (bpc = "done" /\ max_retries >= 1 /\ num_books <= C6_Qualifying) =>
        Len(all_books_data) = num_books

\* C6 as amended: scrape_books ends with exactly num_books collected items
\* (whatever the number of qualifying catalog items) unless a catalog page
\* fetch used up its max_retries attempts, in which case it ends with fewer
\* than num_books.
C6_ExactlyTargetUnlessAborted ==
    bpc = "done" =>
        IF aborted THEN Len(all_books_data) < num_books
                   ELSE Len(all_books_data) = num_books

C6_Witness ==
    /\ bpc = "done" /\ ~aborted
    /\ num_books = 2 /\ num_books <= C6_Qualifying
    /\ Len(all_books_data) = 2

\* C7: every collected record has a price strictly below price_limit, and a
\* detail-page request is only issued for an item priced below price_limit.
C7_PriceBelowLimit ==
    /\ [](\A k \in 1..Len(all_books_data) : all_books_data[k].price < price_limit)
    /\ [][ (req'.kind = "book" /\ bvars' # bvars) =>
              /\ req'.page = fetched_page /\ req'.idx \in DOMAIN books
              /\ books[req'.idx] < price_limit
         ]_vars

C7_Witness ==
    /\ bevent = "filtered" /\ bpc = "book"
    /\ Len(all_books_data) >= 1
    /\ \E i \in DOMAIN books : books[i] >= price_limit

\* C8: never more than num_books records are collected, and from a state in
\* which the count has reached num_books no step issues a request.
C8_StopsAtTarget ==
    /\ [](Len(all_books_data) <= num_books)
    /\ [][books_scraped >= num_books => req' = NoReq]_vars

C8_Witness ==
    /\ bpc = "done" /\ ~aborted
    /\ num_books >= 1 /\ books_scraped = num_books
    /\ fetched_page = page_num - 1 /\ qualifying_seen > num_books

\* C9: when all max_retries attempts of a page are used up the pagination
\* loop is left: the next step goes to the persistence step with the list
\* untouched, no request is issued afterwards, and a dump that succeeds
\* writes the records collected so far to books.json.
C9_AbortOnPageExhaustion ==
    /\ [][ /\ (bpc = "attempt" /\ attempt >= max_retries) =>
                 /\ bpc' = "persist" /\ aborted'
                 /\ all_books_data' = all_books_data
           /\ aborted => (req' = NoReq /\ all_books_data' = all_books_data
                          /\ page_num' = page_num)
         ]_vars
    /\ []((aborted /\ bpc = "done" /\ bevent = "saved") =>
              LET loaded == JsonLoad(books_json, BookKeys, BookValues)
              IN  loaded.ok /\ loaded.value = all_books_data)

C9_Witness ==
    /\ aborted /\ bpc = "done" /\ bevent = "saved"
    /\ max_retries = 2 /\ attempt = 2
    /\ Len(all_books_data) >= 1
    /\ books_json = JsonDump(all_books_data, BookKeys)

\* C10: neither scrape_books nor scrape_hacker_news is ever left by an
\* exception.
C10_NeverRaises ==
    bpc # "raised" /\ hpc # "raised"

\* scrape_books has no return statement: a call that came back (line 129 or
\* the end of the try of line 122) hands None to its caller.
ScrapeBooksReturn == IF bpc = "done" THEN "None" ELSE "running"

\* C11 as claimed: after a failed write of the output file the pipeline has
\* not raised and its caller receives the collected list.
C11_ListReturnedAfterWriteFailure ==
    /\ (hpc = "returned" /\ hexit = "save_failed") => hn_return = news_items
    /\ bevent = "save_failed" =>
          (bpc = "done" /\ ScrapeBooksReturn = "list")

\* C11 as amended: the step in which the write of the output file fails
\* does not raise and leaves the collected list as it is;
\* scrape_hacker_news then returns that list, not an empty one, and
\* scrape_books returns None.
C11_WriteFailureStillReturns ==
    /\ [][ /\ hpc = "persist" =>
                 /\ hpc' = "finally"
                 /\ hn_return' = news_items /\ news_items' = news_items
           /\ (bpc \in {"persist", "dump"} /\ bevent' = "save_failed") =>
                 /\ bpc' = "done"
                 /\ all_books_data' = all_books_data
         ]_vars
    /\ []((hpc = "returned" /\ hexit = "save_failed") => hn_return = news_items)
    /\ [](bevent = "save_failed" => ScrapeBooksReturn = "None")

C11_Witness ==
    /\ hpc = "returned" /\ hexit = "save_failed"
    /\ Len(hn_return) >= 1 /\ hn_return = news_items
    /\ hn_json = OldFile

\* C12: after a dump that completed, loading the output file gives exactly
\* the in-memory list (same records, same keys, same order), whatever the
\* file held before.
C12_FileIsTheList ==
    /\ bevent = "saved" =>
          LET loaded == JsonLoad(books_json, BookKeys, BookValues)
          IN  loaded.ok /\ loaded.value = all_books_data
    /\ hexit = "saved" =>
          LET loaded == JsonLoad(hn_json, HeadlineKeys, HeadlineValues)
          IN  loaded.ok /\ loaded.value = news_items

C12_Witness ==
    /\ bevent = "saved" /\ Len(all_books_data) = 2
    /\ books_json # OldFile
    /\ books_json[3] = ToString("Título")
    /\ Len(books_json) = 23

\* C13: in each of the five retry loops the attempt index never passes the
\* configured maximum, and the loop is only ever left with a success or
\* with its exhaustion branch.
C13_RetryChains ==
    [][ /\ attempt' <= max_retries' /\ cat_attempt' <= max_retries'
        /\ hn_attempt' <= MAX_RETRIES
        /\ (bpc = "attempt" /\ bpc' \notin {"attempt", "book"}) =>
              bevent' \in {"page_empty", "page_exhausted"}
        /\ (bpc = "book" /\ bpc' \notin {"book", "cat"}) =>
              bevent' = "filtered"
        /\ (bpc = "cat" /\ bpc' # "cat") =>
              bevent' \in {"appended", "cat_exhausted"}
        /\ (hpc = "start" /\ hpc' # "start") =>
              (hevent' = "started" \/ hexit' = "start_exhausted")
        /\ (hpc = "nav" /\ hpc' # "nav") =>
              (hevent' = "navigated" \/ hexit' = "nav_exhausted")
        /\ (hpc = "find" /\ hpc' # "find") =>
              (hevent' = "rows_found" \/ hexit' \in {"find_exhausted", "no_rows"})
      ]_vars

\* C14: no catalog entry is appended to the collected list twice.
C14_AppendedAtMostOnce ==
    \A j, k \in 1..Len(all_books_data) :
        j < k => all_books_data[j].title # all_books_data[k].title

\* C15: whatever the lookups of a row raise, the row loop goes on to the
\* next row, reaches the persistence step after the last one, and the
\* records of the rows that did not fail are returned.
C15_RowFailureDoesNotAbort ==
    /\ [][ hpc = "row" =>
              /\ Len(row_log') = Len(row_log) + 1
              /\ IF row_i < rows THEN hpc' = "row" /\ row_i' = row_i + 1
                                 ELSE hpc' = "persist"
         ]_vars
    /\ [](hpc = "persist" => Len(row_log) = rows)
    /\ []((hpc = "returned" /\ Len(row_log) >= 1) =>
             /\ hexit \in {"saved", "save_failed"}
             /\ \A i \in C4_KeptRows : \E k \in 1..Len(hn_return) :
                   hn_return[k].title = RowTitle(i))

C15_Witness ==
    /\ hpc = "returned" /\ hexit = "saved"
    /\ rows = 2 /\ row_log[1].title = "Exception"
    /\ Len(hn_return) = 1 /\ hn_return[1].title = RowTitle(2)

\* C16: find_elements is called at most MAX_RETRIES times; an empty result
\* uses up one attempt and is followed by a sleep; a non-empty result ends
\* the lookup with those rows; when no attempt finds a row the function
\* returns [].
C16_RowLookupRetry ==
    /\ [](find_calls <= MAX_RETRIES)
    /\ [][ /\ (hpc = "find" /\ hevent' = "rows_empty") =>
                 /\ hn_attempt' = hn_attempt + 1 /\ hslept'
                 /\ find_calls' = find_calls + 1
           /\ (hpc = "find" /\ hevent' = "rows_found") =>
                 /\ hpc' = "row" /\ rows' >= 1 /\ row_i' = 1
           /\ hpc \in {"row", "persist", "finally", "returned", "raised"} =>
                 (find_calls' = find_calls /\ rows' = rows)
         ]_vars
    /\ []((hpc = "returned" /\ hexit \in {"no_rows", "find_exhausted"}) =>
             /\ hn_return = <<>> /\ rows = 0
             /\ find_calls = MAX_RETRIES)

C16_Witness ==
    /\ hpc = "returned" /\ hexit = "no_rows"
    /\ hevent = "finally" /\ find_calls = MAX_RETRIES
    /\ hn_return = <<>>

\* C17: when session start or navigation has failed MAX_RETRIES times the
\* function returns []; no navigation, row lookup or row extraction is
\* executed after that.
C17_AbortOnAcquisitionFailure ==
    /\ [][ /\ (hpc = "start" /\ hn_attempt = MAX_RETRIES - 1
                             /\ hevent' = "start_failed") =>
                 (hpc' = "returned" /\ hn_return' = <<>>)
           /\ (hpc = "nav" /\ hn_attempt = MAX_RETRIES - 1
                           /\ hevent' = "nav_failed") =>
                 (hpc' = "finally" /\ hn_return' = <<>>)
           /\ hexit \in {"start_exhausted", "nav_exhausted"} =>
                 /\ hop' = "none" /\ find_calls' = find_calls
                 /\ row_log' = row_log /\ news_items' = news_items
         ]_vars
    /\ []((hpc = "returned" /\ hexit \in {"start_exhausted", "nav_exhausted"}) =>
             (hn_return = <<>> /\ find_calls = 0 /\ row_log = <<>>))

C17_Witness ==
    /\ hpc = "returned" /\ hexit = "nav_exhausted"
    /\ driver /\ hn_return = <<>> /\ find_calls = 0

\* C18: the page cursor starts at 1 and moves by exactly one each time a
\* page is left; every catalog page request is for the page requested last
\* or for the one after it, the first being page 1.
C18_PagesInOrder ==
    /\ [](bpc # "idle" => page_num >= 1)
    /\ [][ /\ bpc # "idle" => page_num' \in {page_num, page_num + 1}
           /\ bpc = "idle" => page_num' \in {page_num, 1}
           /\ (bpc \in {"attempt", "book", "cat"} /\ bpc' = "while") =>
                 page_num' = page_num + 1
           /\ req'.kind = "page" =>
                 /\ req'.page = page_num /\ last_page' = page_num
                 /\ last_page \in {page_num - 1, page_num}
         ]_vars

C18_Witness ==
    /\ req = PageReq(2) /\ last_page = 2 /\ bevent = "page_items"
    /\ Len(all_books_data) = 0

\* C19: every step leaves each collected list alone or appends one record
\* at its end, and the lists are in processing order (page by page, row by
\* row).
C19_AppendOnly ==
    /\ [][ /\ \/ all_books_data' = all_books_data
              \/ /\ Len(all_books_data') = Len(all_books_data) + 1
                 /\ SubSeq(all_books_data', 1, Len(all_books_data)) = all_books_data
           /\ \/ news_items' = news_items
              \/ /\ Len(news_items') = Len(news_items) + 1
                 /\ SubSeq(news_items', 1, Len(news_items)) = news_items
         ]_vars
    /\ [](\A j, k \in 1..Len(all_books_data) :
            j < k => all_books_data[j].title[1] <= all_books_data[k].title[1])
    /\ [](\A j, k \in 1..Len(news_items) : \A a, b \in 1..MaxRows :
            (j < k /\ news_items[j].title = RowTitle(a)
                   /\ news_items[k].title = RowTitle(b)) => a < b)

C19_Witness ==
    /\ bpc = "done" /\ Len(all_books_data) = 2
    /\ all_books_data[1].title[1] = 1 /\ all_books_data[2].title[1] = 2

\* C20 as claimed: every failed attempt of a retry loop is followed by the
\* sleep, the last one before exhaustion included.
C20_SleepAfterEveryFailure ==
    [][ /\ (bpc \in {"attempt", "cat"} /\
             bevent' \in {"page_exception", "page_non200", "cat_failed",
                          "cat_request_exception"}) => bslept'
        /\ (hpc \in {"start", "nav", "find"} /\
             hevent' \in {"start_failed", "nav_failed", "rows_empty",
                          "find_failed"}) => hslept'
      ]_vars

\* C20 as amended: in scrape_books (page fetch, category fetch) and after
\* an empty row lookup the sleep follows every failed attempt, the last
\* included; after a failed session start, a failed navigation and a row
\* lookup that raised NoSuchElementException the sleep follows every failed
\* attempt except the last.
C20_SleepAfterFailure ==
    [][ /\ (bpc \in {"attempt", "cat"} /\
             bevent' \in {"page_exception", "page_non200", "cat_failed",
                          "cat_request_exception"}) => bslept'
        /\ (hpc = "find" /\ hevent' = "rows_empty") => hslept'
        /\ (hpc \in {"start", "nav", "find"} /\
             hevent' \in {"start_failed", "nav_failed", "find_failed"}) =>
                (hslept' <=> hn_attempt < MAX_RETRIES - 1)
      ]_vars

C20_Witness ==
    /\ hpc = "returned" /\ hexit = "start_exhausted"
    /\ hevent = "start_failed" /\ ~hslept

\* C22: once driver.quit() has been called, no later step of
\* scrape_hacker_news executes driver.get, driver.find_elements or
\* row.find_element; the only session call that may follow is another
\* driver.quit().
C22_NoSessionOpAfterQuit ==
    [][ (quit_calls >= 1 /\ hvars' # hvars) =>
            /\ hop' = "none"
            /\ find_calls' = find_calls /\ row_log' = row_log
      ]_vars

C22_Witness ==
    /\ hpc = "returned" /\ hexit = "find_exhausted"
    /\ quit_calls = 2 /\ hop = "none" /\ hevent = "finally"
    /\ find_calls = MAX_RETRIES

\* C21: with pages 1..MaxPage the only ones that can answer 200, every
\* started scrape_books call comes to an end (it returns, or an exception
\* leaves it), no catalog page beyond MaxPage + 1 is requested, and no
\* page URL is requested more than max_retries times.
C21_TerminatesWithBoundedRequests ==
    /\ [](page_gets <= max_retries)
    /\ [](last_page <= MaxPage + 1 /\ page_num <= MaxPage + 1)
    /\ [](req.kind = "page" => (req.page = last_page /\ req.page >= 1))
    /\ (bpc \notin {"idle", "done", "raised"}) ~> (bpc \in {"done", "raised"})

C21_Witness ==
    /\ bpc = "done" /\ aborted
    /\ last_page = MaxPage + 1
    /\ max_retries = MaxRetriesArg /\ page_gets = max_retries
    /\ Len(all_books_data) >= 1

\* C23: whatever the background scrape_books is doing to books.json while
\* GET /books is served, load_books_from_json returns the complete list
\* the file held before, the complete list of this run, or the empty
\* list, and the response is that list passed through the category filter.
C23_CompleteOrEmpty ==
    rpc = "responded" =>
        /\ \/ books_data = <<>>
           \/ books_data = PrevBooks
           \/ bevent = "saved" /\ books_data = all_books_data
        /\ \E c \in Categories : response = FilterBooks(books_data, c)

C23_Witness ==
    /\ rpc = "responded" /\ bpc = "dump"
    /\ Len(all_books_data) = 2
    /\ written = FlushSize /\ Len(books_json) = written
    /\ books_data = <<>> /\ response = <<>>
=============================================================================
